---- MODULE Spec2Model ----
(***************************************************************************)
(* Feasibility-masking basis functions of rubin_scheduler                  *)
(* (scheduler/basis_functions/mask_basis_funcs.py).                        *)
(*                                                                         *)
(* Pixel value maps are functions 1..npix -> Values.  Floating values are  *)
(* kept by class: "0.0", "1.0", a finite penalty "10.0", "inf" and "nan".  *)
(* Angles are integers in raw units; IntRounded quantizes them to steps    *)
(* of Quantum raw units, so two raw values can share a quantized value.    *)
(***************************************************************************)
EXTENDS Integers, Sequences, FiniteSets, TLC

VARIABLES area, bf, conditions, pc, idx, area_map, calls, feasible, value, first, raised, locals

vars == <<area, bf, conditions, pc, idx, area_map, calls, feasible, value, first, raised, locals>>

----------------------------------------------------------------------------
(* Bounds of the model *)

\* pixels of the maps of the aggregator's specifications
NPix == 2
\* longest bf_list given to AreaCheckMaskBasisFunction
MaxBf == 2
\* area of one pixel, in the units of min_area
PixArea == 2
\* altitudes and altitude limits run over 0 .. MaxAlt raw units
MaxAlt == 4
\* the padding runs over 0 .. MaxPad raw units
MaxPad == 2

----------------------------------------------------------------------------
(* numpy values and arrays *)

\* Python's None
None == [class |-> "NoneType"]
nan == "nan"
inf == "inf"
zero == "0.0"
one == "1.0"
\* a finite value other than 0 and 1 (the docstrings' out_of_bounds_val of 10.)
ten == "10.0"

Values == {zero, one, ten, inf, nan}

isnan(v) == v = nan

isfinite(v) == v \in {zero, one, ten}

\* healpy.nside2npix: the pixel count of a resolution (one pixel per unit here)
nside2npix(nside) == nside

\* healpy.nside2pixarea(nside, degrees=True)
nside2pixarea(nside) == PixArea

Pixels(nside) == 1 .. nside2npix(nside)

Maps(nside) == [Pixels(nside) -> Values]

\* np.zeros(n), np.ones(n), np.empty(n).fill(v) as array data
zeros(n) == [p \in 1 .. n |-> zero]

ones(n) == [p \in 1 .. n |-> one]

full(n, v) == [p \in 1 .. n |-> v]

\* An array object: its identity and its data.  Two references with the same
\* id are the same object, and a write through one is seen through the other.
Array(id, data) == [id |-> id, data |-> data]

\* the mutant of copy: the array itself is handed on
copy_alias(a) == a

\* ndarray.copy(): a new object with the same data
copy(a) == Array("fresh", a.data)

\* the array `tpl` as it reads after in-place writes that left object `o`
Aliased(tpl, o) == IF tpl # None /\ o # None /\ tpl.id = o.id THEN o ELSE tpl

\* the mutant of Mul: a zero factor wins over not-a-number
Mul_zero_first(a, b) ==
    IF a = zero \/ b = zero THEN zero
    ELSE IF isnan(a) \/ isnan(b) THEN nan
    ELSE IF a = inf \/ b = inf THEN inf
    ELSE IF a = one THEN b
    ELSE IF b = one THEN a
    ELSE ten

\* IEEE product of two values
Mul(a, b) ==
    IF isnan(a) \/ isnan(b) THEN nan
    ELSE IF (a = zero /\ b = inf) \/ (a = inf /\ b = zero) THEN nan
    ELSE IF a = zero \/ b = zero THEN zero
    ELSE IF a = inf \/ b = inf THEN inf
    ELSE IF a = one THEN b
    ELSE IF b = one THEN a
    ELSE ten

\* a *= m, elementwise
MulMap(a, m) == [p \in DOMAIN a |-> Mul(a[p], m[p])]

\* the class of each entry of a map: "nan", "inf" or "finite"
Class(v) == IF isnan(v) THEN "nan" ELSE IF v = inf THEN "inf" ELSE "finite"

ClassMap(m) == [p \in DOMAIN m |-> Class(m[p])]

----------------------------------------------------------------------------
(* IntRounded (rubin_scheduler.scheduler.utils): comparisons on integers *)

\* raw units per quantized step (the reciprocal of IntRounded's scale)
Quantum == 3

\* IntRounded(x).value: np.round(x * scale), here x / Quantum rounded to nearest
IntRounded(x) == (2 * x + Quantum) \div (2 * Quantum)

\* np.radians and hours / 12 * pi: configuration arguments are drawn on the
\* raw radian grid itself, every raw value being the image of some argument
radians(x) == x

----------------------------------------------------------------------------
(* SolarElongMaskBasisFunction *)

SolarElongMaskBasisFunction(elong_limit, nside) ==
    [class |-> "SolarElongMaskBasisFunction",
     nside |-> nside,
     elong_limit |-> IntRounded(radians(elong_limit)),
     result |-> Array("bf.result", zeros(nside2npix(nside)))]

\* result[to_mask] = v on array object `a`
SetAt(a, to_mask, v) ==
    [a EXCEPT !.data = [p \in DOMAIN @ |-> IF p \in to_mask THEN v ELSE @[p]]]

SolarElongMask_calc_value(self, c) ==
    LET result == copy(self.result)
        to_mask == {p \in Pixels(self.nside) :
                      IntRounded(c.solar_elongation[p]) > self.elong_limit}
    IN  SetAt(result, to_mask, nan)

----------------------------------------------------------------------------
(* The other masking functions.  A constructor gives the instance it made   *)
(* or the exception it raised; so does _calc_value with the returned array. *)

\* no call is in progress
Idle == pc \in {"idle", "cf_done", "cv_done", "bf_done"}

\* what the first evaluation returned, kept once, and whether the same
\* function was evaluated with that snapshot again
Remember(fn, c, o) ==
    IF first = None THEN [fn |-> fn, conditions |-> c, data |-> o.data, again |-> FALSE]
    ELSE IF first.fn = fn /\ first.conditions = c THEN [first EXCEPT !.again = TRUE]
    ELSE first

Made(self) == [self |-> self, raised |-> None]

Returned(a) == [value |-> a, raised |-> None]

Raised(exc, at) == [exc |-> exc, at |-> at]

\* an optional argument: None, or a number
NoValue == <<>>

Some(x) == <<x>>

\* hours / 12.0 * np.pi, on the raw radian grid (see radians)
hours(x) == x

HaMaskBasisFunction(ha_min, ha_max, nside) ==
    [class |-> "HaMaskBasisFunction",
     nside |-> nside,
     ha_max |-> ha_max,
     ha_min |-> ha_min,
     result |-> Array("bf.result", zeros(nside2npix(nside)))]

\* the raw comparisons of lines 67 and 70
HaMask_calc_value(self, c) ==
    LET result == copy(self.result)
        low == IF self.ha_min # NoValue
               THEN {p \in Pixels(self.nside) : c.HA[p] < hours(self.ha_min[1])}
               ELSE {}
        high == IF self.ha_max # NoValue
                THEN {p \in Pixels(self.nside) : c.HA[p] > hours(self.ha_max[1])}
                ELSE {}
    IN  SetAt(SetAt(result, low, nan), high, nan)

SolarElongationMaskBasisFunction(min_elong, max_elong, nside, penalty) ==
    [class |-> "SolarElongationMaskBasisFunction",
     nside |-> nside,
     min_elong |-> radians(min_elong),
     max_elong |-> radians(max_elong),
     penalty |-> penalty,
     result |-> Array("bf.result", full(nside2npix(nside), penalty))]

\* the mutant of SolarElongationMask_calc_value: the pixels outside the
\* range are given 1
SolarElongationMask_outside(self, c) ==
    LET result == copy(self.result)
        out_range == {p \in Pixels(self.nside) :
                        \/ IntRounded(c.solar_elongation[p]) < IntRounded(self.min_elong)
                        \/ IntRounded(c.solar_elongation[p]) > IntRounded(self.max_elong)}
    IN  SetAt(result, out_range, one)

SolarElongationMask_calc_value(self, c) ==
    LET result == copy(self.result)
        in_range == {p \in Pixels(self.nside) :
                       /\ IntRounded(c.solar_elongation[p]) >= IntRounded(self.min_elong)
                       /\ IntRounded(c.solar_elongation[p]) <= IntRounded(self.max_elong)}
    IN  SetAt(result, in_range, one)

\* ZenithMaskBasisFunction.__init__: self.penalty is read, which the class
\* never sets (AttributeError unless the base class has it), and
\* ndarray.fill returns None, which becomes self.result
ZenithMaskBasisFunction(min_alt, max_alt, nside, base_has_penalty) ==
    IF base_has_penalty
    THEN Made([class |-> "ZenithMaskBasisFunction",
               nside |-> nside,
               min_alt |-> radians(min_alt),
               max_alt |-> radians(max_alt),
               result |-> None])
    ELSE [self |-> None,
          raised |-> Raised("AttributeError", "ZenithMaskBasisFunction.__init__")]

\* result = self.result.copy(), self.result being None
ZenithMask_calc_value(self, c) ==
    IF self.result = None
    THEN [value |-> None,
          raised |-> Raised("AttributeError", "ZenithMaskBasisFunction._calc_value")]
    ELSE LET result == copy(self.result)
             alt_limit == {p \in Pixels(self.nside) :
                             /\ IntRounded(c.alt[p]) > IntRounded(self.min_alt)
                             /\ IntRounded(c.alt[p]) < IntRounded(self.max_alt)}
         IN  Returned(SetAt(result, alt_limit, one))

\* max_cloud_map: the array given, or np.zeros(npix) + max_val
BulkCloudBasisFunction(nside, max_cloud_map, max_val, out_of_bounds_val) ==
    [class |-> "BulkCloudBasisFunction",
     nside |-> nside,
     max_cloud_map |-> IF max_cloud_map = NoValue
                       THEN [p \in Pixels(nside) |-> max_val]
                       ELSE max_cloud_map,
     out_of_bounds_val |-> out_of_bounds_val,
     result |-> Array("bf.result", ones(nside2npix(nside)))]

\* the raw comparison of line 434 (and 483)
BulkCloud_calc_value(self, c) ==
    LET result == copy(self.result)
        clouded == {p \in Pixels(self.nside) : self.max_cloud_map[p] <= c.bulk_cloud}
    IN  SetAt(result, clouded, self.out_of_bounds_val)

\* MapCloudBasisFunction.__init__: super(BulkCloudBasisFunction, self), self
\* being no BulkCloudBasisFunction, raises TypeError
MapCloudBasisFunction(nside, max_cloud_map, max_val, out_of_bounds_val) ==
    [self |-> None, raised |-> Raised("TypeError", "MapCloudBasisFunction.__init__")]

MaskAzimuthBasisFunction(nside, out_of_bounds_val, az_min, az_max) ==
    [class |-> "MaskAzimuthBasisFunction",
     nside |-> nside,
     az_min |-> IntRounded(radians(az_min)),
     az_max |-> IntRounded(radians(az_max)),
     out_of_bounds_val |-> out_of_bounds_val,
     result |-> Array("bf.result", ones(nside2npix(nside)))]

\* the mutant of MaskAzimuth_calc_value: the ends of the interval are masked
MaskAzimuth_closed(self, c) ==
    LET to_mask == {p \in Pixels(self.nside) :
                      IntRounded(c.az[p]) >= self.az_min /\ IntRounded(c.az[p]) <= self.az_max}
        result == copy(self.result)
    IN  SetAt(result, to_mask, self.out_of_bounds_val)

MaskAzimuth_calc_value(self, c) ==
    LET to_mask == {p \in Pixels(self.nside) :
                      IntRounded(c.az[p]) > self.az_min /\ IntRounded(c.az[p]) < self.az_max}
        result == copy(self.result)
    IN  SetAt(result, to_mask, self.out_of_bounds_val)

\* BaseBasisFunction.__call__: self._calc_value(conditions) of the class
calc_value(self, c) ==
    CASE self.class = "SolarElongMaskBasisFunction" ->
           Returned(SolarElongMask_calc_value(self, c))
      [] self.class = "HaMaskBasisFunction" -> Returned(HaMask_calc_value(self, c))
      [] self.class = "SolarElongationMaskBasisFunction" ->
           Returned(SolarElongationMask_calc_value(self, c))
      [] self.class = "ZenithMaskBasisFunction" -> ZenithMask_calc_value(self, c)
      [] self.class = "BulkCloudBasisFunction" -> Returned(BulkCloud_calc_value(self, c))
      [] self.class = "MaskAzimuthBasisFunction" ->
           Returned(MaskAzimuth_calc_value(self, c))

\* evaluate of the instance in bf, the caller keeping the returned array
BasisFunction_call(c) ==
    /\ Idle /\ bf # None /\ bf.class # "AltAzShadowMaskBasisFunction"
    /\ LET r == calc_value(bf, c)
       IN  /\ value' = r.value
           /\ raised' = r.raised
           /\ bf' = [bf EXCEPT !.result = Aliased(@, r.value)]
           /\ first' = IF r.raised = None THEN Remember("bf", c, r.value) ELSE first
           /\ locals' = IF r.raised = None THEN [result |-> r.value.data] ELSE None
    /\ conditions' = c
    /\ pc' = "bf_done"
    /\ UNCHANGED <<area, idx, area_map, calls, feasible>>

\* the caller writes into the array it was returned
CallerOverwrite ==
    /\ pc \in {"bf_done", "cv_done"} /\ value # None
    /\ \E p \in DOMAIN value.data, v \in {ten, nan} :
         /\ value.data[p] # v
         /\ value' = [value EXCEPT !.data[p] = v]
    /\ bf' = IF bf = None THEN bf ELSE [bf EXCEPT !.result = Aliased(@, value')]
    /\ area' = IF area = None THEN area ELSE [area EXCEPT !.result = Aliased(@, value')]
    /\ UNCHANGED <<conditions, pc, idx, area_map, calls, feasible, first, raised, locals>>

----------------------------------------------------------------------------
(* The members of an aggregator's bf_list.  "ext" is a basis function given *)
(* by the caller, whose answers are its own; "bf" is the instance in bf.    *)

\* bf.check_feasibility(conditions); BaseBasisFunction's answer is True
check_feasibility_of(m, c) == IF m = "bf" THEN {TRUE} ELSE BOOLEAN

\* bf(conditions): the array the member returns
call_of(m, self, c, nside) ==
    IF m = "bf" THEN {calc_value(self, c).value}
    ELSE {Array("fresh", d) : d \in Maps(nside)}

----------------------------------------------------------------------------
(* AreaCheckMaskBasisFunction *)

\* the mutant of AreaCheckMaskBasisFunction: the template is all ones
AreaCheckMask_ones(bf_list, nside, min_area) ==
    [class |-> "AreaCheckMaskBasisFunction",
     nside |-> nside,
     bf_list |-> bf_list,
     min_area |-> min_area,
     result |-> Array("area.result", ones(nside2npix(nside)))]

AreaCheckMaskBasisFunction(bf_list, nside, min_area) ==
    [class |-> "AreaCheckMaskBasisFunction",
     nside |-> nside,
     bf_list |-> bf_list,
     min_area |-> min_area,
     result |-> Array("area.result", zeros(nside2npix(nside)))]

\* check_feasibility is entered: result = True.  The caller lets go of what
\* the call before returned.
AreaCheck_check_feasibility(c) ==
    /\ Idle /\ area # None
    /\ pc' = "cf_check" /\ idx' = 1 /\ calls' = <<>>
    /\ feasible' = TRUE /\ conditions' = c /\ area_map' = None
    /\ value' = None /\ locals' = None
    /\ UNCHANGED <<area, bf, first, raised>>

\* the mutant of AfterCheck: the loop goes on after a member said no
AfterCheck_no_return(ok) == "cf_check"

\* where the first loop goes after a member's answer: on, or `return False`
AfterCheck(ok) == IF ok THEN "cf_check" ELSE "cf_done"

\* one turn of the first loop: if not bf.check_feasibility(conditions)
AreaCheck_check_feasibility_bf ==
    /\ pc = "cf_check" /\ idx <= Len(area.bf_list)
    /\ \E ok \in check_feasibility_of(area.bf_list[idx], conditions) :
         /\ calls' = Append(calls, [fn |-> "check_feasibility", bf |-> idx, ok |-> ok])
         /\ pc' = AfterCheck(ok)
         /\ idx' = idx + 1
         /\ feasible' = (feasible /\ ok)
    /\ UNCHANGED <<area, bf, conditions, area_map, value, first, raised, locals>>

\* area_map = self.result.copy()
AreaCheck_check_feasibility_copy ==
    /\ pc = "cf_check" /\ idx > Len(area.bf_list)
    /\ area_map' = copy(area.result)
    /\ pc' = "cf_eval" /\ idx' = 1
    /\ UNCHANGED <<area, bf, conditions, calls, feasible, value, first, raised, locals>>

\* one turn of a product loop: area_map *= bf(conditions)
MultiplyMember ==
    /\ idx <= Len(area.bf_list)
    /\ \E o \in call_of(area.bf_list[idx], bf, conditions, area.nside) :
         /\ area_map' = [area_map EXCEPT !.data = MulMap(@, o.data)]
         /\ area' = [area EXCEPT !.result = Aliased(@, area_map')]
         /\ bf' = IF bf = None THEN bf ELSE [bf EXCEPT !.result = Aliased(@, o)]
         /\ calls' = Append(calls, [fn |-> "call", bf |-> idx, map |-> ClassMap(o.data)])
    /\ idx' = idx + 1
    /\ UNCHANGED <<conditions, pc, feasible, value, first, raised, locals>>

AreaCheck_check_feasibility_call == pc = "cf_eval" /\ MultiplyMember

\* the mutant of AreaGate: the boundary fails
AreaGate_le(self, map, result) ==
    LET good_pix == {p \in DOMAIN map : map[p] = zero}
    IN  IF nside2pixarea(self.nside) * Cardinality(good_pix) <= self.min_area
        THEN FALSE ELSE result

\* good_pix = np.where(area_map == 0)[0]; if pixarea * good_pix.size < min_area
AreaGate(self, map, result) ==
    LET good_pix == {p \in DOMAIN map : map[p] = zero}
    IN  IF nside2pixarea(self.nside) * Cardinality(good_pix) < self.min_area
        THEN FALSE ELSE result

AreaCheck_check_feasibility_return ==
    /\ pc = "cf_eval" /\ idx > Len(area.bf_list)
    /\ feasible' = AreaGate(area, area_map.data, feasible)
    /\ pc' = "cf_done"
    /\ UNCHANGED <<area, bf, conditions, idx, area_map, calls, value, first, raised, locals>>

\* _calc_value is entered: result = self.result.copy()
AreaCheck_calc_value(c) ==
    /\ Idle /\ area # None
    /\ area_map' = copy(area.result)
    /\ pc' = "cv_eval" /\ idx' = 1 /\ calls' = <<>> /\ conditions' = c
    /\ feasible' = TRUE /\ value' = None /\ locals' = None
    /\ UNCHANGED <<area, bf, first, raised>>

\* one turn of its loop: result *= bf(conditions)
AreaCheck_calc_value_call == pc = "cv_eval" /\ MultiplyMember

\* return result
AreaCheck_calc_value_return ==
    /\ pc = "cv_eval" /\ idx > Len(area.bf_list)
    /\ value' = area_map
    /\ first' = Remember("area", conditions, area_map)
    /\ locals' = [result |-> area_map.data]
    /\ pc' = "cv_done"
    /\ UNCHANGED <<area, bf, conditions, idx, area_map, calls, feasible, raised>>

----------------------------------------------------------------------------
(* Spec: an aggregator over basis functions given by the caller *)

\* a snapshot read only by the caller's basis functions
Opaque == [class |-> "Conditions"]

BfLists == UNION {[1 .. n -> {"ext"}] : n \in 0 .. MaxBf}

Init ==
    /\ area \in {AreaCheckMaskBasisFunction(l, NPix, a) :
                   l \in BfLists, a \in 0 .. PixArea * NPix + 1}
    /\ bf = None /\ conditions = None
    /\ pc = "idle" /\ idx = 0 /\ area_map = None /\ calls = <<>>
    /\ feasible = TRUE /\ value = None /\ first = [fn |-> "off"] /\ raised = None /\ locals = None

Next ==
    \/ AreaCheck_check_feasibility(Opaque)
    \/ AreaCheck_check_feasibility_bf
    \/ AreaCheck_check_feasibility_copy
    \/ AreaCheck_check_feasibility_call
    \/ AreaCheck_check_feasibility_return
    \/ AreaCheck_calc_value(Opaque)
    \/ AreaCheck_calc_value_call
    \/ AreaCheck_calc_value_return

Spec == Init /\ [][Next]_vars

----------------------------------------------------------------------------
(* AltAzShadowMaskBasisFunction *)

\* two_pi = 2 * np.pi, in raw units; it is no multiple of Quantum
two_pi == 8

Max(a, b) == IF a >= b THEN a ELSE b

Min(a, b) == IF a <= b THEN a ELSE b

\* IntRounded.__sub__: the difference of the initial values, quantized
ISub(a, b) == IntRounded(a - b)

AltAzShadowMaskBasisFunction(nside, min_alt, max_alt, min_az, max_az, shadow_minutes, pad) ==
    [class |-> "AltAzShadowMaskBasisFunction",
     nside |-> nside,
     min_alt |-> radians(min_alt),
     max_alt |-> radians(max_alt),
     min_az |-> radians(min_az),
     max_az |-> radians(max_az),
     shadow_time |-> shadow_minutes,
     pad |-> radians(pad)]

\* conditions.future_alt_az(mjd): the snapshot's projection to time mjd
future_alt_az(c, mjd) == c.future[mjd]

\* the mutant of AltLimits: the function's own band is padded too
AltLimits_pad_own(self, c) ==
    [min_alt |-> IntRounded(Max(c.tel_alt_min + self.pad, self.min_alt + self.pad)),
     max_alt |-> IntRounded(Min(c.tel_alt_max - self.pad, self.max_alt - self.pad))]

\* min_alt = IntRounded(np.max([tel_alt_min + pad, self.min_alt])), and max_alt
AltLimits(self, c) ==
    [min_alt |-> IntRounded(Max(c.tel_alt_min + self.pad, self.min_alt)),
     max_alt |-> IntRounded(Min(c.tel_alt_max - self.pad, self.max_alt))]

\* 1 where the test holds, 0 elsewhere: np.where(test, 1, 0)
Where(test) == IF test THEN 1 ELSE 0

\* the mutant of InRangeAlt: the projected altitude is tested against the
\* lower limit only
InRangeAlt_future_low(self, c, lim) ==
    LET future_alt == future_alt_az(c, c.mjd + self.shadow_time).alt
    IN  [p \in Pixels(self.nside) |->
           Where(IntRounded(c.alt[p]) >= lim.min_alt /\ IntRounded(c.alt[p]) <= lim.max_alt)
           + Where(IntRounded(future_alt[p]) >= lim.min_alt)]

\* in_range_alt: one count for the current altitude inside the limits, one
\* for the projected altitude
InRangeAlt(self, c, lim) ==
    LET future_alt == future_alt_az(c, c.mjd + self.shadow_time).alt
    IN  [p \in Pixels(self.nside) |->
           Where(IntRounded(c.alt[p]) >= lim.min_alt /\ IntRounded(c.alt[p]) <= lim.max_alt)
           + Where(IntRounded(future_alt[p]) >= lim.min_alt
                   /\ IntRounded(future_alt[p]) <= lim.max_alt)]

\* the mutant of InRange1: the seam is not crossed (no modulus on the azimuth)
InRange1_no_mod(self, c) ==
    LET future_az == future_alt_az(c, c.mjd + self.shadow_time).az
        itwo_pi == IntRounded(two_pi)
    IN  IF ISub(c.tel_az_max, c.tel_az_min) >= itwo_pi
        THEN [p \in Pixels(self.nside) |-> 2]
        ELSE LET azr == ((c.tel_az_max - c.tel_az_min) % two_pi) - 2 * self.pad
             IN  [p \in Pixels(self.nside) |->
                    Where(c.az[p] - c.tel_az_min - self.pad >= 0
                          /\ c.az[p] - c.tel_az_min - self.pad <= azr)
                    + Where(future_az[p] - c.tel_az_min - self.pad >= 0
                            /\ future_az[p] - c.tel_az_min - self.pad <= azr)]

\* in_range1: the telescope's azimuth range, padded
InRange1(self, c) ==
    LET future_az == future_alt_az(c, c.mjd + self.shadow_time).az
        itwo_pi == IntRounded(two_pi)
    IN  IF ISub(c.tel_az_max, c.tel_az_min) >= itwo_pi
        THEN [p \in Pixels(self.nside) |-> 2]
        ELSE LET azr == ((c.tel_az_max - c.tel_az_min) % two_pi) - 2 * self.pad
             IN  [p \in Pixels(self.nside) |->
                    Where((c.az[p] - c.tel_az_min - self.pad) % two_pi <= azr)
                    + Where((future_az[p] - c.tel_az_min - self.pad) % two_pi <= azr)]

\* in_range2: the function's own azimuth range
InRange2(self, c) ==
    LET future_az == future_alt_az(c, c.mjd + self.shadow_time).az
        itwo_pi == IntRounded(two_pi)
    IN  IF ISub(self.max_az, self.min_az) >= itwo_pi
        THEN [p \in Pixels(self.nside) |-> 2]
        ELSE LET azr == (self.max_az - self.min_az) % two_pi
             IN  [p \in Pixels(self.nside) |->
                    Where((c.az[p] - self.min_az) % two_pi <= azr)
                    + Where((future_az[p] - self.min_az) % two_pi <= azr)]

\* the locals of _calc_value
AltAzShadowMask_locals(self, c) ==
    LET lim == AltLimits(self, c)
        in_range1 == InRange1(self, c)
        in_range2 == InRange2(self, c)
    IN  [min_alt |-> lim.min_alt,
         max_alt |-> lim.max_alt,
         in_range_alt |-> InRangeAlt(self, c, lim),
         in_range1 |-> in_range1,
         in_range2 |-> in_range2,
         in_range_az |-> [p \in Pixels(self.nside) |->
                            IF in_range1[p] > 1 /\ in_range2[p] > 1 THEN 2 ELSE 0]]

\* result starts all not-a-number; result[passed_all] = 0
AltAzShadowMask_calc_value(self, c) ==
    LET l == AltAzShadowMask_locals(self, c)
        result == Array("fresh", full(nside2npix(self.nside), nan))
        passed_all == {p \in Pixels(self.nside) :
                         l.in_range_alt[p] > 1 /\ l.in_range_az[p] > 1}
    IN  SetAt(result, passed_all, zero)

\* evaluate of the AltAzShadowMaskBasisFunction in bf
AltAzShadowMask_call(c) ==
    /\ Idle /\ bf # None /\ bf.class = "AltAzShadowMaskBasisFunction"
    /\ value' = AltAzShadowMask_calc_value(bf, c)
    /\ locals' = AltAzShadowMask_locals(bf, c)
    /\ first' = Remember("bf", c, AltAzShadowMask_calc_value(bf, c))
    /\ conditions' = c
    /\ pc' = "bf_done"
    /\ UNCHANGED <<area, bf, idx, area_map, calls, feasible, raised>>

----------------------------------------------------------------------------
(* SpecTemplate: a mask with a template array, an aggregator over it, and a *)
(* caller that writes into the maps it is returned.                         *)

\* snapshots of solar elongation, each pixel near the sun or far from it
ElongSnapshots ==
    {[class |-> "Conditions", solar_elongation |-> e] :
       e \in [Pixels(NPix) -> {0, MaxAlt}]}

InitTemplate ==
    /\ bf \in {SolarElongMaskBasisFunction(l, NPix) : l \in {0, 1}}
            \cup {SolarElongationMaskBasisFunction(MaxAlt, MaxAlt, NPix, v) : v \in {nan, ten}}
    /\ area \in {AreaCheckMaskBasisFunction([k \in 1 .. n |-> "bf"], NPix, PixArea) :
                   n \in 1 .. MaxBf}
    /\ conditions = None
    /\ pc = "idle" /\ idx = 0 /\ area_map = None /\ calls = <<>>
    /\ feasible = TRUE /\ value = None /\ first = None /\ raised = None /\ locals = None

NextTemplate ==
    \/ \E c \in ElongSnapshots : BasisFunction_call(c)
    \/ \E c \in ElongSnapshots : AreaCheck_calc_value(c)
    \/ AreaCheck_calc_value_call
    \/ AreaCheck_calc_value_return
    \/ \E c \in ElongSnapshots : AreaCheck_check_feasibility(c)
    \/ AreaCheck_check_feasibility_bf
    \/ AreaCheck_check_feasibility_copy
    \/ AreaCheck_check_feasibility_call
    \/ AreaCheck_check_feasibility_return
    \/ CallerOverwrite

SpecTemplate == InitTemplate /\ [][NextTemplate]_vars

----------------------------------------------------------------------------
(* Claims about the aggregator, checked under Spec *)

\* the log entries of the call in progress, by kind
Checks == {k \in 1 .. Len(calls) : calls[k].fn = "check_feasibility"}

Calls == {k \in 1 .. Len(calls) : calls[k].fn = "call"}

\* every member's check_feasibility was called and returned true
AllChecksTrue ==
    /\ Cardinality(Checks) = Len(area.bf_list)
    /\ \A k \in Checks : calls[k].ok

\* pixels of the combined map that equal 0
GoodPix == {p \in DOMAIN area_map.data : area_map.data[p] = zero}

\* C1: when every member's check_feasibility is true, check_feasibility
\* returns false if (pixels whose combined value is 0) x (pixel area) is
\* strictly below min_area and true otherwise, so true at equality.
C1_AreaGate ==
    (pc = "cf_done" /\ AllChecksTrue) =>
        (feasible <=> ~(nside2pixarea(area.nside) * Cardinality(GoodPix) < area.min_area))

\* a run of check_feasibility that ended true exactly at the boundary
C1_Witness ==
    /\ pc = "cf_done" /\ AllChecksTrue
    /\ Len(area.bf_list) = 2
    /\ area.min_area > 0
    /\ nside2pixarea(area.nside) * Cardinality(GoodPix) = area.min_area
    /\ feasible

\* C2: check_feasibility asks the members in list order; at the first false
\* it returns false at once, with no later member asked and no member's map
\* evaluated; a map is evaluated only after every member answered true.
C2_FailFast ==
    (pc \in {"cf_check", "cf_eval", "cf_done"}) =>
        /\ \A k \in Checks :
             /\ calls[k].bf = k
             /\ \A j \in 1 .. k - 1 : calls[j].fn = "check_feasibility" /\ calls[j].ok
             /\ ~calls[k].ok => (k = Len(calls) /\ pc = "cf_done" /\ ~feasible)
        /\ \A k \in Calls :
             /\ k > Len(area.bf_list)
             /\ \A j \in 1 .. Len(area.bf_list) :
                  calls[j].fn = "check_feasibility" /\ calls[j].ok

\* the first member answered false and nothing else was called
C2_Witness ==
    /\ pc = "cf_done" /\ Len(area.bf_list) = 2
    /\ Len(calls) = 1 /\ ~calls[1].ok /\ ~feasible

\* pixels where the k-th called member's map is not-a-number
Masked(k) == {p \in DOMAIN calls[k].map : calls[k].map[p] = "nan"}

\* pixels where the returned combined map is not-a-number
CombinedMasked == {p \in DOMAIN value.data : isnan(value.data[p])}

\* every entry of every member's map is finite or not-a-number
MembersFiniteOrNan == \A k \in Calls : \A p \in DOMAIN calls[k].map : calls[k].map[p] # "inf"

\* not-a-number propagates through the product
NanPropagates == \A k \in Calls : Masked(k) \subseteq CombinedMasked

\* C3 as claimed: the combined map is masked wherever a member's map is, and
\* for two members with non-overlapping masked sets the combined masked set
\* is exactly the union of the two.
C3_Original ==
    (pc = "cv_done") =>
        /\ NanPropagates
        /\ (Len(calls) = 2 /\ Masked(1) \cap Masked(2) = {}) =>
               CombinedMasked = Masked(1) \cup Masked(2)

\* C3 as amended: the same, the union being exact for two members whose maps
\* hold only finite or not-a-number entries.
C3_MaskedUnion ==
    (pc = "cv_done") =>
        /\ NanPropagates
        /\ (Len(calls) = 2 /\ Masked(1) \cap Masked(2) = {} /\ MembersFiniteOrNan) =>
               CombinedMasked = Masked(1) \cup Masked(2)

\* two members masked at different pixels, both masks in the combined map
C3_Witness ==
    /\ pc = "cv_done" /\ Len(calls) = 2 /\ MembersFiniteOrNan
    /\ Masked(1) = {1} /\ Masked(2) = {2}
    /\ CombinedMasked = {1, 2}

\* every member's map has been multiplied into the combined map
AllMapsCombined ==
    /\ pc \in {"cf_done", "cv_done"}
    /\ Cardinality(Calls) = Len(area.bf_list)

\* C13: when the members' maps hold only finite or not-a-number entries,
\* every entry of the combined map, in check_feasibility and in evaluate, is
\* 0 or not-a-number, and is 0 exactly where no member's map is
\* not-a-number, whatever finite values the members give elsewhere.
C13_ZeroOrNan ==
    (AllMapsCombined /\ MembersFiniteOrNan) =>
        \A p \in DOMAIN area_map.data :
            /\ area_map.data[p] \in {zero, nan}
            /\ area_map.data[p] = zero <=> \A k \in Calls : calls[k].map[p] = "finite"

\* check_feasibility combined two members' maps, one of them masked at one
\* pixel, and the other pixels were counted
C13_Witness ==
    /\ pc = "cf_done" /\ AllMapsCombined /\ MembersFiniteOrNan
    /\ Cardinality(Calls) = 2
    /\ \E k \in Calls : Masked(k) = {1}
    /\ GoodPix = DOMAIN area_map.data \ {1}
    /\ feasible

----------------------------------------------------------------------------
(* SpecAltAz: AltAzShadowMaskBasisFunction on one pixel.  The altitude      *)
(* tests and the two azimuth tests do not read each other's inputs, so the *)
(* inputs are drawn one group at a time, the other groups being held wide  *)
(* open, and then together from a few values of each.                      *)

Alts == 0 .. MaxAlt

Pads == 0 .. MaxPad

Azs == 0 .. two_pi - 1

\* ends of azimuth ranges: below 0, around the circle, past a full turn
AzEnds == -2 .. two_pi + 2

\* a snapshot of one pixel, projected one shadow time ahead
AltAzConditions(alt, az, future_alt, future_az, alt_lim, az_lim) ==
    [class |-> "Conditions",
     mjd |-> 0,
     alt |-> <<alt>>,
     az |-> <<az>>,
     future |-> [t \in {1} |-> [alt |-> <<future_alt>>, az |-> <<future_az>>]],
     tel_alt_min |-> alt_lim[1],
     tel_alt_max |-> alt_lim[2],
     tel_az_min |-> az_lim[1],
     tel_az_max |-> az_lim[2]]

InitAltitudes ==
    \E min_alt \in Alts, max_alt \in Alts, tel_min \in Alts, tel_max \in Alts,
       alt \in Alts, future_alt \in Alts, pad \in Pads :
        /\ bf = AltAzShadowMaskBasisFunction(1, min_alt, max_alt, 0, two_pi, 1, pad)
        /\ conditions = AltAzConditions(alt, 0, future_alt, 0,
                                        <<tel_min, tel_max>>, <<0, two_pi>>)

InitOwnAzimuth ==
    \E min_az \in AzEnds, max_az \in AzEnds, az \in Azs, future_az \in Azs, pad \in Pads :
        /\ bf = AltAzShadowMaskBasisFunction(1, 0, MaxAlt, min_az, max_az, 1, pad)
        /\ conditions = AltAzConditions(1, az, 1, future_az,
                                        <<-MaxPad, MaxAlt + MaxPad>>, <<0, two_pi>>)

InitTelAzimuth ==
    \E tel_min \in AzEnds, tel_max \in AzEnds, az \in Azs, future_az \in Azs, pad \in Pads :
        /\ bf = AltAzShadowMaskBasisFunction(1, 0, MaxAlt, 0, two_pi, 1, pad)
        /\ conditions = AltAzConditions(1, az, 1, future_az,
                                        <<-MaxPad, MaxAlt + MaxPad>>, <<tel_min, tel_max>>)

InitTogether ==
    \E max_alt \in {0, MaxAlt}, alt \in {0, MaxAlt}, future_alt \in {0, MaxAlt},
       max_az \in {2, 5}, tel_max \in {3, 6}, az \in {0, 3, 6}, future_az \in {0, 3, 6},
       pad \in {0, 1} :
        /\ bf = AltAzShadowMaskBasisFunction(1, 0, max_alt, 0, max_az, 1, pad)
        /\ conditions = AltAzConditions(alt, az, future_alt, future_az,
                                        <<-MaxPad, MaxAlt + MaxPad>>, <<0, tel_max>>)

InitAltAz ==
    /\ InitAltitudes \/ InitOwnAzimuth \/ InitTelAzimuth \/ InitTogether
    /\ area = None
    /\ pc = "idle" /\ idx = 0 /\ area_map = None /\ calls = <<>>
    /\ feasible = TRUE /\ value = None /\ first = [fn |-> "off"] /\ raised = None
    /\ locals = None

NextAltAz == AltAzShadowMask_call(conditions)

SpecAltAz == InitAltAz /\ [][NextAltAz]_vars

----------------------------------------------------------------------------
(* Claims about AltAzShadowMaskBasisFunction, checked under SpecAltAz *)

AltAzDone == pc = "bf_done" /\ bf.class = "AltAzShadowMaskBasisFunction"

\* the snapshot's projection shadow_minutes ahead
Projected == future_alt_az(conditions, conditions.mjd + bf.shadow_time)

\* azimuth az lies on the arc that runs from lo upward over len raw units
OnArc(az, lo, len) == \E d \in 0 .. len : (lo + d - az) % two_pi = 0

\* altitude x is inside the band the call used
AltInBand(x) == locals.min_alt <= IntRounded(x) /\ IntRounded(x) <= locals.max_alt

\* a range whose quantized width is a full circle or more
FullCircle(lo, hi) == IntRounded(hi - lo) >= IntRounded(two_pi)

\* azimuth az passes the function's own range [min_az, max_az]
OwnAzPasses(az) ==
    \/ FullCircle(bf.min_az, bf.max_az)
    \/ OnArc(az, bf.min_az, (bf.max_az - bf.min_az) % two_pi)

\* azimuth az passes the telescope's range, shrunk by pad at both ends
TelAzPasses(az) ==
    \/ FullCircle(conditions.tel_az_min, conditions.tel_az_max)
    \/ OnArc(az, conditions.tel_az_min + bf.pad,
             ((conditions.tel_az_max - conditions.tel_az_min) % two_pi) - 2 * bf.pad)

InBandCount(lower, upper, p) ==
    Where(IntRounded(lower) <= IntRounded(conditions.alt[p])
          /\ IntRounded(conditions.alt[p]) <= IntRounded(upper))
    + Where(IntRounded(lower) <= IntRounded(Projected.alt[p])
            /\ IntRounded(Projected.alt[p]) <= IntRounded(upper))

AltBandIs(lower, upper) ==
    /\ locals.min_alt = IntRounded(lower)
    /\ locals.max_alt = IntRounded(upper)
    /\ \A p \in Pixels(bf.nside) : locals.in_range_alt[p] = InBandCount(lower, upper, p)
    /\ IntRounded(lower) > IntRounded(upper) =>
         \A p \in Pixels(bf.nside) : isnan(value.data[p])

\* C5 as claimed: the band is the intersection of [min_alt, max_alt] and
\* [tel_alt_min, tel_alt_max], each shrunk by pad: lower = max(min_alt + pad,
\* tel_alt_min + pad), upper = min(max_alt - pad, tel_alt_max - pad); no pixel
\* passes when lower exceeds upper.
C5_Original ==
    AltAzDone =>
        AltBandIs(Max(bf.min_alt + bf.pad, conditions.tel_alt_min + bf.pad),
                  Min(bf.max_alt - bf.pad, conditions.tel_alt_max - bf.pad))

\* C5 as amended: only the telescope's limits are shrunk by pad: lower =
\* max(min_alt, tel_alt_min + pad), upper = min(max_alt, tel_alt_max - pad); no
\* pixel passes when lower exceeds upper.
C5_AltBand ==
    AltAzDone =>
        AltBandIs(Max(bf.min_alt, conditions.tel_alt_min + bf.pad),
                  Min(bf.max_alt, conditions.tel_alt_max - bf.pad))

\* the function's own lower limit is the tighter one and is not padded; an
\* altitude between it and the padded limit passes
C5_Witness ==
    /\ AltAzDone /\ bf.pad > 0
    /\ bf.min_alt < bf.max_alt /\ conditions.tel_alt_min < conditions.tel_alt_max
    /\ bf.min_alt > conditions.tel_alt_min + bf.pad
    /\ IntRounded(conditions.alt[1]) < IntRounded(bf.min_alt + bf.pad)
    /\ value.data[1] = zero

\* azimuth az passes the range [lo, hi] as C6 states it
ClaimedPasses(az, lo, hi) ==
    IF hi - lo >= two_pi THEN TRUE ELSE OnArc(az, lo, (hi - lo) % two_pi)

\* C6 as claimed: for the function's own range and for the telescope's, a
\* range of 360 degrees or more restricts nothing, and otherwise an azimuth
\* passes exactly when it lies on the arc from lo upward to hi.
C6_Original ==
    AltAzDone =>
        \A p \in Pixels(bf.nside) :
            /\ locals.in_range2[p] =
                 Where(ClaimedPasses(conditions.az[p], bf.min_az, bf.max_az))
                 + Where(ClaimedPasses(Projected.az[p], bf.min_az, bf.max_az))
            /\ locals.in_range1[p] =
                 Where(ClaimedPasses(conditions.az[p], conditions.tel_az_min,
                                     conditions.tel_az_max))
                 + Where(ClaimedPasses(Projected.az[p], conditions.tel_az_min,
                                       conditions.tel_az_max))

\* C6 as amended: a range whose quantized width is 360 degrees or more
\* restricts nothing; otherwise an azimuth passes the function's own range
\* exactly when it lies on the arc from min_az upward to max_az, and passes
\* the telescope's range exactly when it lies on the arc from tel_az_min + pad
\* upward to tel_az_max - pad, which is empty when the range is narrower than
\* 2 * pad.
C6_AzimuthArc ==
    AltAzDone =>
        \A p \in Pixels(bf.nside) :
            /\ locals.in_range2[p] =
                 Where(OwnAzPasses(conditions.az[p])) + Where(OwnAzPasses(Projected.az[p]))
            /\ locals.in_range1[p] =
                 Where(TelAzPasses(conditions.az[p])) + Where(TelAzPasses(Projected.az[p]))

\* a range across the seam: the azimuth past 0 passes, the projected one,
\* outside the arc, does not, and the pixel is masked
C6_Witness ==
    /\ AltAzDone
    /\ bf.min_az = 6 /\ bf.max_az = 2
    /\ conditions.az[1] = 1 /\ Projected.az[1] = 4
    /\ locals.in_range2[1] = 1 /\ locals.in_range1[1] = 2
    /\ isnan(value.data[1])

----------------------------------------------------------------------------
(* Claims about template arrays, checked under SpecTemplate *)

\* the template bf was constructed with
ConstructedTemplate ==
    IF bf.class = "SolarElongationMaskBasisFunction"
    THEN full(nside2npix(bf.nside), bf.penalty)
    ELSE zeros(nside2npix(bf.nside))

\* the function whose evaluate returned last
LastEvaluated == IF pc = "bf_done" THEN "bf" ELSE "area"

\* C8: whatever evaluate calls were made and whatever the callers wrote into
\* the maps they received, each instance's template array holds the values
\* of its construction, and an evaluation with the snapshot of the first one
\* returns the map the first one returned.
C8_TemplateKept ==
    /\ bf.result.data = ConstructedTemplate
    /\ area.result.data = zeros(nside2npix(area.nside))
    /\ (pc \in {"bf_done", "cv_done"} /\ first # None
        /\ first.fn = LastEvaluated /\ first.conditions = conditions) =>
           locals.result = first.data

\* the aggregator was evaluated again with its first snapshot, which masks
\* one pixel, after a caller wrote into a returned map
C8_Witness ==
    /\ pc = "cv_done" /\ first # None /\ first.fn = "area" /\ first.again
    /\ first.conditions = conditions
    /\ \E p, q \in DOMAIN first.data : isnan(first.data[p]) /\ first.data[q] = zero
    /\ value.data # locals.result

----------------------------------------------------------------------------
(* SpecMasks: any masking function is constructed with any arguments, then  *)
(* evaluated.  locals holds the arguments of the last constructor call.     *)

\* the constructor calls: the arguments and what the constructor gave
Constructions ==
    {[args |-> [class |-> "SolarElongMaskBasisFunction", elong_limit |-> l],
      made |-> Made(SolarElongMaskBasisFunction(l, NPix))] : l \in Alts}
    \cup
    {[args |-> [class |-> "HaMaskBasisFunction", ha_min |-> lo, ha_max |-> hi],
      made |-> Made(HaMaskBasisFunction(lo, hi, NPix))] :
       lo \in {NoValue} \cup {Some(x) : x \in Alts},
       hi \in {NoValue} \cup {Some(x) : x \in Alts}}
    \cup
    {[args |-> [class |-> "SolarElongationMaskBasisFunction",
                min_elong |-> lo, max_elong |-> hi, penalty |-> v],
      made |-> Made(SolarElongationMaskBasisFunction(lo, hi, NPix, v))] :
       lo \in Alts, hi \in Alts, v \in {nan, ten}}
    \cup
    {[args |-> [class |-> "ZenithMaskBasisFunction", min_alt |-> lo, max_alt |-> hi],
      made |-> ZenithMaskBasisFunction(lo, hi, NPix, b)] :
       lo \in Alts, hi \in Alts, b \in BOOLEAN}
    \cup
    {[args |-> [class |-> "BulkCloudBasisFunction", max_val |-> m, out_of_bounds_val |-> v],
      made |-> Made(BulkCloudBasisFunction(NPix, NoValue, m, v))] :
       m \in Alts, v \in {nan, ten}}
    \cup
    {[args |-> [class |-> "MapCloudBasisFunction", max_val |-> m, out_of_bounds_val |-> v],
      made |-> MapCloudBasisFunction(NPix, NoValue, m, v)] :
       m \in Alts, v \in {nan, ten}}
    \cup
    {[args |-> [class |-> "MaskAzimuthBasisFunction",
                az_min |-> lo, az_max |-> hi, out_of_bounds_val |-> v],
      made |-> Made(MaskAzimuthBasisFunction(NPix, v, lo, hi))] :
       lo \in Alts, hi \in Alts, v \in {nan, ten}}
    \cup
    {[args |-> [class |-> "AltAzShadowMaskBasisFunction",
                min_alt |-> lo, max_alt |-> hi, pad |-> pad],
      made |-> Made(AltAzShadowMaskBasisFunction(1, lo, hi, 0, two_pi, 1, pad))] :
       lo \in Alts, hi \in Alts, pad \in -1 .. MaxPad}

\* cls(...): the constructor call of a behaviour, giving an instance or raising
Construct ==
    /\ Idle /\ bf = None /\ raised = None
    /\ \E k \in Constructions :
         /\ bf' = k.made.self
         /\ raised' = k.made.raised
         /\ locals' = k.args
    /\ pc' = "idle"
    /\ value' = None
    /\ UNCHANGED <<area, conditions, idx, area_map, calls, feasible, first>>

\* snapshots for the functions of one map: every angle map of the snapshot
\* is m, and the cloud level its first entry
MaskSnapshots ==
    {[class |-> "Conditions", solar_elongation |-> m, HA |-> m, alt |-> m, az |-> m,
      bulk_cloud |-> m[1]] : m \in [Pixels(NPix) -> Alts]}

\* snapshots for AltAzShadowMaskBasisFunction: the pixel stays where it is
ShadowSnapshots ==
    {AltAzConditions(alt, 0, alt, 0, <<0, MaxAlt>>, <<0, two_pi>>) : alt \in Alts}

InitMasks ==
    /\ bf = None /\ area = None /\ conditions = None
    /\ pc = "idle" /\ idx = 0 /\ area_map = None /\ calls = <<>>
    /\ feasible = TRUE /\ value = None /\ first = [fn |-> "off"] /\ raised = None
    /\ locals = None

NextMasks ==
    \/ Construct
    \/ \E c \in MaskSnapshots : BasisFunction_call(c)
    \/ \E c \in ShadowSnapshots : AltAzShadowMask_call(c)

SpecMasks == InitMasks /\ [][NextMasks]_vars

----------------------------------------------------------------------------
(* Claims about every masking function, checked under SpecMasks *)

\* a configuration (constructor arguments, or an instance's attributes)
\* whose thresholds are in order and whose pad is not negative
ValidConfiguration(x) ==
    CASE x.class = "HaMaskBasisFunction" ->
           (x.ha_min # NoValue /\ x.ha_max # NoValue) => x.ha_min[1] <= x.ha_max[1]
      [] x.class = "SolarElongationMaskBasisFunction" -> x.min_elong <= x.max_elong
      [] x.class = "ZenithMaskBasisFunction" -> x.min_alt <= x.max_alt
      [] x.class = "MaskAzimuthBasisFunction" -> x.az_min <= x.az_max
      [] x.class = "AltAzShadowMaskBasisFunction" -> x.min_alt <= x.max_alt /\ x.pad >= 0
      [] OTHER -> TRUE

\* C7: no constructor call and no evaluate call on a valid configuration
\* raises an exception.
C7_NeverRaises ==
    raised # None => ~ValidConfiguration(IF pc = "idle" THEN locals ELSE bf)

\* HaMaskBasisFunction._calc_value with both operands of each comparison
\* quantized
HaMask_quantized(self, c) ==
    LET result == copy(self.result)
        low == IF self.ha_min # NoValue
               THEN {p \in Pixels(self.nside) :
                       IntRounded(c.HA[p]) < IntRounded(hours(self.ha_min[1]))}
               ELSE {}
        high == IF self.ha_max # NoValue
                THEN {p \in Pixels(self.nside) :
                        IntRounded(c.HA[p]) > IntRounded(hours(self.ha_max[1]))}
                ELSE {}
    IN  SetAt(SetAt(result, low, nan), high, nan)

\* BulkCloudBasisFunction._calc_value with both operands quantized
BulkCloud_quantized(self, c) ==
    LET result == copy(self.result)
        clouded == {p \in Pixels(self.nside) :
                      IntRounded(self.max_cloud_map[p]) <= IntRounded(c.bulk_cloud)}
    IN  SetAt(result, clouded, self.out_of_bounds_val)

\* the map a function gives when every threshold comparison is quantized
QuantizedValue(self, c) ==
    CASE self.class = "HaMaskBasisFunction" -> HaMask_quantized(self, c)
      [] self.class = "BulkCloudBasisFunction" -> BulkCloud_quantized(self, c)
      [] OTHER -> calc_value(self, c).value

\* C9: the map every masking function returns is the map of quantized
\* comparisons: two raw values in one quantization step are never ordered.
C9_AllQuantized ==
    (pc = "bf_done" /\ raised = None /\ bf.class # "AltAzShadowMaskBasisFunction") =>
        value.data = QuantizedValue(bf, conditions).data

\* C10: a constructor called with thresholds out of order or a negative pad
\* raises; it makes no instance.
C10_InvalidRejected ==
    (pc = "idle" /\ locals # None /\ ~ValidConfiguration(locals)) => raised # None

----------------------------------------------------------------------------
(* SpecTighten: a range-based masking function is evaluated, its bounds are *)
(* replaced by tighter ones, and it is evaluated on the same snapshot.      *)

\* ends of the azimuth range of AltAzShadowMaskBasisFunction
AzBounds == {0, 3, 6}

\* azimuths around the circle, one or two of each quantized value
AzPoints == {0, 2, 3, 5, two_pi}

\* the constructor calls of the range-based functions
RangeConstructions ==
    {[args |-> [class |-> "HaMaskBasisFunction", lo |-> lo, hi |-> hi, out |-> nan],
      made |-> Made(HaMaskBasisFunction(lo, hi, NPix))] :
       lo \in {NoValue} \cup {Some(x) : x \in Alts},
       hi \in {NoValue} \cup {Some(x) : x \in Alts}}
    \cup
    {[args |-> [class |-> "SolarElongationMaskBasisFunction",
                lo |-> Some(lo), hi |-> Some(hi), out |-> nan],
      made |-> Made(SolarElongationMaskBasisFunction(lo, hi, NPix, nan))] :
       lo \in Alts, hi \in Alts}
    \cup
    {[args |-> [class |-> "MaskAzimuthBasisFunction",
                lo |-> Some(lo), hi |-> Some(hi), out |-> v],
      made |-> Made(MaskAzimuthBasisFunction(NPix, v, lo, hi))] :
       lo \in AzPoints, hi \in AzPoints, v \in {nan, ten}}
    \cup
    {[args |-> [class |-> "AltAzShadowMaskBasisFunction",
                lo |-> Some(lo), hi |-> Some(hi),
                az_lo |-> az_lo, az_hi |-> az_hi, pad |-> pad, out |-> nan],
      made |-> Made(AltAzShadowMaskBasisFunction(1, lo, hi, az_lo, az_hi, 1, pad))] :
       lo \in Alts, hi \in Alts, az_lo \in AzBounds, az_hi \in AzBounds, pad \in {0, 1}}

\* lo <= lo' <= hi' <= hi, an absent bound being no bound; out is the value
\* given to masked pixels
TighterRange(lo, hi, new_lo, new_hi) ==
    /\ lo # NoValue => (new_lo # NoValue /\ lo[1] <= new_lo[1])
    /\ hi # NoValue => (new_hi # NoValue /\ new_hi[1] <= hi[1])
    /\ (new_lo # NoValue /\ new_hi # NoValue) => new_lo[1] <= new_hi[1]

\* the arguments `new` tighten the arguments `old` of the same function
Tighter(new, old) ==
    /\ new.class = old.class
    /\ new.out = old.out
    /\ TighterRange(old.lo, old.hi, new.lo, new.hi)
    /\ new.class = "AltAzShadowMaskBasisFunction" =>
         /\ new.pad = old.pad
         /\ TighterRange(Some(old.az_lo), Some(old.az_hi), Some(new.az_lo), Some(new.az_hi))

\* the bounds are in order
Ordered(a) == Tighter(a, a)

\* the evaluated function is replaced by one of tighter bounds, once
Tighten ==
    /\ pc = "bf_done" /\ first # None /\ ~first.again
    /\ \E old \in {k \in RangeConstructions : k.made.self = bf} :
         \E new \in {k \in RangeConstructions : Tighter(k.args, old.args)} :
            /\ new.made.self # bf
            /\ bf' = new.made.self
    /\ pc' = "idle"
    /\ value' = None
    /\ locals' = None
    /\ UNCHANGED <<area, conditions, idx, area_map, calls, feasible, first, raised>>

\* snapshots of one pixel for the shadow mask, inside the hardware limits
TightenShadowSnapshots ==
    {AltAzConditions(alt, az, alt, az, <<0, MaxAlt>>, <<0, two_pi>>) :
       alt \in Alts, az \in {0, 2, 4, 6}}

\* snapshots of the azimuth of every pixel
AzimuthSnapshots ==
    {[class |-> "Conditions", az |-> m] : m \in [Pixels(NPix) -> AzPoints]}

InitTighten ==
    /\ \E k \in RangeConstructions :
         /\ Ordered(k.args)
         /\ bf = k.made.self
         /\ conditions \in CASE k.args.class = "AltAzShadowMaskBasisFunction" ->
                                  TightenShadowSnapshots
                             [] k.args.class = "MaskAzimuthBasisFunction" ->
                                  AzimuthSnapshots
                             [] OTHER -> MaskSnapshots
    /\ area = None
    /\ pc = "idle" /\ idx = 0 /\ area_map = None /\ calls = <<>>
    /\ feasible = TRUE /\ value = None /\ first = None /\ raised = None
    /\ locals = None

NextTighten ==
    \/ BasisFunction_call(conditions)
    \/ AltAzShadowMask_call(conditions)
    \/ Tighten

SpecTighten == InitTighten /\ [][NextTighten]_vars

----------------------------------------------------------------------------
(* Claims about tightened bounds, checked under SpecTighten *)

\* the number of pixels of a map that are not masked
Unmasked(data) == Cardinality({p \in DOMAIN data : ~isnan(data[p])})

\* the function was evaluated on its first snapshot again
EvaluatedAgain == pc = "bf_done" /\ first # None /\ first.again

\* C11 as stated: after the bounds of any range-based function are
\* tightened, the map of the same snapshot has no more unmasked pixels.
C11_Original ==
    EvaluatedAgain => Unmasked(value.data) <= Unmasked(first.data)

\* C11: after the bounds are tightened, the map of the same snapshot has no
\* more unmasked pixels for the functions that keep the pixels inside their
\* range (hour angle, solar elongation, altitude/azimuth shadow), and no
\* fewer for MaskAzimuthBasisFunction, which masks the pixels inside it.
C11_Tightening ==
    EvaluatedAgain =>
        IF bf.class = "MaskAzimuthBasisFunction"
        THEN Unmasked(value.data) >= Unmasked(first.data)
        ELSE Unmasked(value.data) <= Unmasked(first.data)

\* a solar elongation range was tightened and a pixel that was unmasked is
\* now masked
C11_Witness ==
    /\ EvaluatedAgain
    /\ bf.class = "SolarElongationMaskBasisFunction"
    /\ Unmasked(value.data) < Unmasked(first.data)

\* a MaskAzimuthBasisFunction has been evaluated
AzimuthEvaluated == pc = "bf_done" /\ bf.class = "MaskAzimuthBasisFunction"

\* the azimuth of pixel p is strictly between the two ends, as the
\* comparator orders them
StrictlyInside(p) ==
    bf.az_min < IntRounded(conditions.az[p]) /\ IntRounded(conditions.az[p]) < bf.az_max

\* C12: MaskAzimuthBasisFunction gives a pixel the out-of-bounds value if
\* its azimuth is strictly inside (az_min, az_max) and 1 otherwise, the
\* pixels at az_min and at az_max included.
C12_OpenInterval ==
    AzimuthEvaluated =>
        \A p \in Pixels(bf.nside) :
            value.data[p] = IF StrictlyInside(p) THEN bf.out_of_bounds_val ELSE one

\* one pixel is at an end of the interval and gets 1, another is inside it
\* and is masked
C12_Witness ==
    /\ AzimuthEvaluated
    /\ bf.out_of_bounds_val = nan
    /\ \E p, q \in Pixels(bf.nside) :
         /\ IntRounded(conditions.az[p]) \in {bf.az_min, bf.az_max}
         /\ value.data[p] = one
         /\ StrictlyInside(q) /\ isnan(value.data[q])

----------------------------------------------------------------------------
(* scheduler_download_data (rubin_scheduler.data).  conditions holds what   *)
(* the program is started with: its arguments, the data directory and what  *)
(* the server answers.  locals holds its local variables, calls the calls   *)
(* it makes to the outside, in order, and value what it returns.            *)

\* the keys of data_dict(), in order
data_dict_keys == <<"scheduler", "site_models", "skybrightness_pre", "tests">>

\* file_dict[key]
data_dict(key) ==
    CASE key = "scheduler" -> "scheduler_2023_10_16.tgz"
      [] key = "site_models" -> "site_models_2023_10_02.tgz"
      [] key = "skybrightness_pre" -> "skybrightness_pre_2023_10_17.tgz"
      [] key = "tests" -> "tests_2022_10_18.tgz"

Range(seq) == {seq[i] : i \in DOMAIN seq}

\* a local variable that no statement has assigned yet
Unbound == "<unbound>"

\* dirs.split(","): the argument is a sequence of names and commas
split(str) == SelectSeq(str, LAMBDA t : t # ",")

\* [key for key in dirs if "orbits_precompute" not in key]
without_orbits(dirs) == SelectSeq(dirs, LAMBDA key : key # "orbits_precompute")

\* a call to the outside
Effect(fn, arg) == [fn |-> fn, arg |-> arg]

\* the values of --dirs: absent, one name, two names
DirsArguments ==
    {NoValue}
    \cup {Some(<<k>>) : k \in Range(data_dict_keys)}
    \cup {Some(<<"tests", ",", "scheduler">>), Some(<<"site_models", ",", "orbits_precompute">>)}

\* what the program is started with
Environments ==
    {[class |-> "Environment",
      args |-> [versions |-> v, dirs |-> d, force |-> f, orbits |-> o],
      isdir |-> TRUE,
      data_dir |-> on_disk,
      versions |-> [k \in recorded |-> data_dict(k)],
      probe |-> probe] :
       v \in BOOLEAN, d \in DirsArguments, f \in BOOLEAN, o \in BOOLEAN,
       on_disk \in SUBSET {"scheduler", "tests", "site_models"},
       recorded \in {{}, {"scheduler"}, Range(data_dict_keys)},
       probe \in {"ConnectionError", "ok", "not_ok"}}
    \cup
    {[class |-> "Environment",
      args |-> [versions |-> v, dirs |-> d, force |-> f, orbits |-> o],
      isdir |-> FALSE,
      data_dir |-> {},
      versions |-> <<>>,
      probe |-> probe] :
       v \in BOOLEAN, d \in DirsArguments, f \in BOOLEAN, o \in BOOLEAN,
       probe \in {"ConnectionError", "ok", "not_ok"}}

\* lines 43-119: arguments, the data directory made if it is missing, the
\* versions on disk, and the --versions report
Download_start ==
    /\ pc = "idle" /\ conditions # None /\ conditions.class = "Environment"
    /\ LET args == conditions.args
           dirs == IF args.dirs = NoValue THEN data_dict_keys ELSE split(args.dirs[1])
           versions == conditions.versions
           match == \A k \in Range(data_dict_keys) :
                       k \in DOMAIN versions /\ versions[k] = data_dict(k)
           mkdir == IF conditions.isdir THEN <<>> ELSE <<Effect("mkdir", "data_dir")>>
       IN  IF args.versions
           THEN /\ calls' = Append(mkdir, Effect("print", IF match THEN "Versions are in sync"
                                                        ELSE "Versions do not match"))
                /\ value' = IF match THEN 0 ELSE 1
                /\ pc' = "dl_done"
                /\ locals' = [dirs |-> dirs, versions |-> versions,
                              fail_message |-> Unbound, r |-> Unbound]
           ELSE /\ calls' = mkdir
                /\ value' = None
                /\ pc' = "dl_probe"
                /\ locals' = [dirs |-> IF args.orbits THEN dirs ELSE without_orbits(dirs),
                              versions |-> versions,
                              fail_message |-> Unbound, r |-> Unbound]
    /\ UNCHANGED <<area, bf, conditions, idx, area_map, feasible, first, raised>>

\* print(x) of a local variable: UnboundLocalError when it was never assigned
print_local(x) ==
    IF x = Unbound
    THEN [calls |-> calls, raised |-> Raised("UnboundLocalError", "scheduler_download_data")]
    ELSE [calls |-> Append(calls, Effect("print", x)), raised |-> None]

\* lines 121-131: fail_message is assigned after requests.get has returned
Download_probe ==
    /\ pc = "dl_probe"
    /\ IF conditions.probe = "ConnectionError"
       THEN LET p == print_local(locals.fail_message)
            IN  /\ calls' = p.calls
                /\ raised' = p.raised
                /\ pc' = IF p.raised = None THEN "dl_exit" ELSE "dl_raised"
                /\ locals' = locals
       ELSE LET bound == [locals EXCEPT !.r = conditions.probe,
                                        !.fail_message = "Could not connect"]
            IN  /\ locals' = bound
                /\ IF conditions.probe # "ok"
                   THEN LET p == print_local(bound.fail_message)
                        IN  /\ calls' = p.calls
                            /\ raised' = p.raised
                            /\ pc' = IF p.raised = None THEN "dl_exit" ELSE "dl_raised"
                   ELSE /\ calls' = calls
                        /\ raised' = raised
                        /\ pc' = "dl_loop"
    /\ UNCHANGED <<area, bf, conditions, idx, area_map, feasible, value, first>>

\* lines 133-162: one turn of the loop, for the next key of dirs
Download_key ==
    /\ pc = "dl_loop" /\ locals.dirs # <<>>
    /\ LET key == Head(locals.dirs)
           isdir == key \in conditions.data_dir
       IN  IF key \notin Range(data_dict_keys)
           THEN /\ raised' = Raised("KeyError", "scheduler_download_data")
                /\ pc' = "dl_raised"
                /\ UNCHANGED <<calls, locals>>
           ELSE /\ raised' = raised
                /\ pc' = pc
                /\ IF isdir /\ ~conditions.args.force
                   THEN /\ calls' = Append(calls, Effect("warn", key))
                        /\ locals' = [locals EXCEPT !.dirs = Tail(@)]
                   ELSE /\ calls' = calls
                                    \o (IF isdir THEN <<Effect("rmtree", key)>> ELSE <<>>)
                                    \o <<Effect("requests.get", data_dict(key)),
                                         Effect("unpack_archive", data_dict(key))>>
                        /\ locals' = [locals EXCEPT
                                        !.dirs = Tail(@),
                                        !.versions = [k \in DOMAIN @ \cup {key} |->
                                                        IF k = key THEN data_dict(key) ELSE @[k]]]
    /\ UNCHANGED <<area, bf, conditions, idx, area_map, feasible, value, first>>

\* lines 164-177: the versions file is written and the table printed
Download_write ==
    /\ pc = "dl_loop" /\ locals.dirs = <<>>
    /\ calls' = Append(calls, Effect("write", "versions.txt"))
    /\ pc' = "dl_done"
    /\ UNCHANGED <<area, bf, conditions, idx, area_map, feasible, value, first, raised,
                   locals>>

InitDownload ==
    /\ conditions \in Environments
    /\ bf = None /\ area = None
    /\ pc = "idle" /\ idx = 0 /\ area_map = None /\ calls = <<>>
    /\ feasible = TRUE /\ value = None /\ first = [fn |-> "off"] /\ raised = None
    /\ locals = None

NextDownload ==
    \/ Download_start
    \/ Download_probe
    \/ Download_key
    \/ Download_write

SpecDownload == InitDownload /\ [][NextDownload]_vars

----------------------------------------------------------------------------
(* Claims about scheduler_download_data, checked under SpecDownload *)

\* the program has made a call of this kind
Called(fn) == \E i \in DOMAIN calls : calls[i].fn = fn

\* the probe of the base URL failed and the program went on from it
ProbeFailed ==
    /\ conditions.probe \in {"ConnectionError", "not_ok"}
    /\ pc \in {"dl_loop", "dl_exit", "dl_raised"} \/ (pc = "dl_done" /\ ~conditions.args.versions)

\* C14: when the probe of the base URL raises a connection error or answers
\* with a status that is not OK, the program prints the failure message and
\* exits, having downloaded nothing, removed no directory and written no
\* versions file.
C14_ConnectFailure ==
    ProbeFailed =>
        /\ pc = "dl_exit" /\ raised = None
        /\ \E i \in DOMAIN calls : calls[i] = Effect("print", "Could not connect")
        /\ ~Called("requests.get") /\ ~Called("rmtree") /\ ~Called("write")

\* what does hold after a failed probe: nothing is downloaded, removed or
\* written
C14_NothingTouched ==
    ProbeFailed => (~Called("requests.get") /\ ~Called("rmtree") /\ ~Called("write"))

====
